---------------------------- MODULE Spec2Model ----------------------------
(***************************************************************************)
(* Loan-order lifecycle engine of InvenTree's `loan` app.                  *)
(*                                                                         *)
(* One loan order ("O1") with two line items is driven through the order   *)
(* actions, the ship / return-items batches and the batch conversion and   *)
(* returned-item sale endpoints.  A third line belongs to another order    *)
(* ("O2") and is only ever named as a (wrong) input.  Quantities are       *)
(* decimals in the code; they are modelled as naturals (whole units).      *)
(* Every handler is one action; a handler that raises inside               *)
(* @transaction.atomic commits nothing (operator atomic).                  *)
(***************************************************************************)
EXTENDS Naturals, Integers, Sequences, FiniteSets, TLC

\* ------------------------------------------------------------------ bounds
MaxQty == 2          \* ordered quantity of the larger line
MaxBatch == 2        \* longest item list submitted to a batch endpoint
MaxConversions == 2  \* most conversion records the batch endpoints may leave
MaxDay == 2          \* last day the clock reaches

None == 0        \* a null date / null foreign key

\* ------------------------------------------------------------ status codes
LoanOrderStatus ==
    {"PENDING", "APPROVED", "ISSUED", "SHIPPED", "ON_HOLD", "RETURNED",
     "PARTIAL_RETURN", "CONVERTED_TO_SALE", "CANCELLED", "WRITTEN_OFF"}

OPEN == {"PENDING", "APPROVED", "ISSUED", "SHIPPED", "ON_HOLD", "PARTIAL_RETURN"}
COMPLETE == {"RETURNED", "CONVERTED_TO_SALE"}
FAILED == {"CANCELLED", "WRITTEN_OFF"}

LoanOrderLineStatus ==
    {"PENDING", "SHIPPED", "RETURNED", "CONVERTED_TO_SALE",
     "PARTIALLY_CONVERTED", "LOST", "DAMAGED"}

LINE_OUT_ON_LOAN == {"SHIPPED", "PARTIALLY_CONVERTED"}
LINE_COMPLETE == {"RETURNED", "CONVERTED_TO_SALE"}
LINE_PROBLEM == {"LOST", "DAMAGED"}

ALLOWED_TRANSITIONS ==
    [s \in LoanOrderStatus |->
        CASE s = "PENDING" -> {"APPROVED", "ISSUED", "ON_HOLD", "CANCELLED"}
          [] s = "APPROVED" -> {"ISSUED", "ON_HOLD", "CANCELLED"}
          [] s = "ISSUED" -> {"SHIPPED", "ON_HOLD", "PARTIAL_RETURN", "RETURNED",
                              "CONVERTED_TO_SALE", "WRITTEN_OFF"}
          [] s = "SHIPPED" -> {"ON_HOLD", "PARTIAL_RETURN", "RETURNED",
                               "CONVERTED_TO_SALE", "WRITTEN_OFF"}
          [] s = "ON_HOLD" -> {"PENDING", "APPROVED", "ISSUED", "SHIPPED", "CANCELLED"}
          [] s = "PARTIAL_RETURN" -> {"RETURNED", "CONVERTED_TO_SALE", "WRITTEN_OFF"}
          [] s = "RETURNED" -> {"CONVERTED_TO_SALE"}
          [] OTHER -> {}]

\* ----------------------------------------------------------------- objects
Lines == {"L1", "L2"}          \* line items that can be added to the order "O1"
OtherLine == "L3"              \* a line item of another order, "O2"
AllLines == Lines \cup {OtherLine}
Units == {"U1"}                \* stock items of the lines' part

LineQuantity == [l \in AllLines |-> IF l = "L1" THEN MaxQty ELSE 1]
StockQuantity == [u \in Units |-> MaxQty + 1]

VARIABLES
    order,              \* the LoanOrder row
    lines,              \* LoanOrderLineItem rows, by line id
    allocations,        \* LoanOrderAllocation rows, by <<line, stock item>>
    conversions,        \* LoanOrderLineConversion rows, in creation order
    sales_orders,       \* number of SalesOrder rows created (ids 1..n)
    sales_lines,        \* SalesOrderLineItem rows, in creation order
    sales_allocations,  \* SalesOrderAllocation rows, in creation order
    settings,           \* global settings read by the handlers
    today,              \* InvenTree.helpers.current_date()
    due_date,           \* LoanOrder.due_date of the order (not written by any handler)
    inflight            \* the requests being served side by side, by worker

vars == <<order, lines, allocations, conversions, sales_orders, sales_lines,
          sales_allocations, settings, today, due_date, inflight>>

\* The database rows as one value, as a transaction sees them.
DB ==
    [order |-> order, lines |-> lines, allocations |-> allocations,
     conversions |-> conversions, sales_orders |-> sales_orders,
     sales_lines |-> sales_lines, sales_allocations |-> sales_allocations]

\* Two workers serve requests at the same time.
Workers == {"W1", "W2"}

\* A worker that is serving no request.
Idle == [pc |-> "idle"]

NoAllocation ==
    [exists |-> FALSE, quantity |-> 0, returned |-> 0,
     is_converted |-> FALSE, converted_to_sales_allocation |-> None]

\* A freshly created line item (field defaults of LoanOrderLineItem).
NewLine(l) ==
    [exists |-> TRUE, order |-> IF l = OtherLine THEN "O2" ELSE "O1",
     quantity |-> LineQuantity[l], shipped |-> 0, returned |-> 0,
     converted_quantity |-> 0, returned_and_sold_quantity |-> 0,
     status |-> "PENDING"]

NoLine(l) == [NewLine(l) EXCEPT !.exists = FALSE]

\* The order "O2" has shipped its one line from stock item "U1".
ShippedOtherLine ==
    [NewLine(OtherLine) EXCEPT !.shipped = LineQuantity[OtherLine], !.status = "SHIPPED"]

\* The rows before the first request: the order "O1" is new and has no line.
InitRows ==
    /\ today = 1
    /\ order = [status |-> "PENDING", creation_date |-> 1, issue_date |-> None,
                ship_date |-> None, return_date |-> None,
                converted_sales_order |-> None]
    /\ lines = [l \in AllLines |-> IF l = OtherLine THEN ShippedOtherLine ELSE NoLine(l)]
    /\ allocations =
          [k \in AllLines \X Units |->
              IF k = <<OtherLine, "U1">>
              THEN [NoAllocation EXCEPT !.exists = TRUE, !.quantity = LineQuantity[OtherLine]]
              ELSE NoAllocation]
    /\ conversions = <<>>
    /\ sales_orders = 0
    /\ sales_lines = <<>>
    /\ sales_allocations = <<>>
    /\ inflight = [w \in Workers |-> Idle]

\* The settings at their defaults.
Init ==
    /\ InitRows
    /\ settings = [LOANORDER_EDIT_COMPLETED_ORDERS |-> FALSE,
                   LOANORDER_AUTO_COMPLETE |-> TRUE]
    /\ due_date = None

\* Completed orders may be edited (LOANORDER_EDIT_COMPLETED_ORDERS is set).
InitUnlocked ==
    /\ InitRows
    /\ settings = [LOANORDER_EDIT_COMPLETED_ORDERS |-> TRUE,
                   LOANORDER_AUTO_COMPLETE |-> TRUE]
    /\ due_date = None

\* The order is created with or without a due date (LoanOrder.clean wants
\* due_date >= creation_date); the settings are at their defaults.
InitDue ==
    /\ InitRows
    /\ settings = [LOANORDER_EDIT_COMPLETED_ORDERS |-> FALSE,
                   LOANORDER_AUTO_COMPLETE |-> TRUE]
    /\ due_date \in {None, 1}

\* ------------------------------------------------------------ transactions
\* A running request: ok is FALSE once an exception has been raised, db is
\* the rows as written so far, path the order statuses saved so far.
Begin(d) == [ok |-> TRUE, db |-> d, path |-> <<>>]

Raise(s) == [s EXCEPT !.ok = FALSE]

\* A block that is not atomic: what it wrote before the exception stays.
atomic_no_rollback(s0, s) == s

\* @transaction.atomic: an exception leaving the block rolls every write of
\* the block back (s0 is the transaction as the block found it, s as the
\* block left it) and goes on to the caller.
atomic(s0, s) == IF s.ok THEN s ELSE [s0 EXCEPT !.ok = FALSE]

Max(a, b) == IF a >= b THEN a ELSE b
Min(a, b) == IF a <= b THEN a ELSE b

RECURSIVE SumOver(_, _)
\* Sum of f[x] over the finite set S (a Sum('...') aggregate).
SumOver(f, S) ==
    IF S = {} THEN 0
    ELSE LET x == CHOOSE y \in S : TRUE IN f[x] + SumOver(f, S \ {x})

\* ------------------------------------------------------- LoanOrder queries
OwnLines(d) == {l \in AllLines : d.lines[l].exists /\ d.lines[l].order = "O1"}

line_count(d) == Cardinality(OwnLines(d))

pending_line_items(d) ==
    {l \in OwnLines(d) : d.lines[l].status \notin LINE_COMPLETE \cup LINE_PROBLEM}

completed_line_items(d) == {l \in OwnLines(d) : d.lines[l].status \in LINE_COMPLETE}

HasShippedQuantity(d) == \E l \in OwnLines(d) : d.lines[l].shipped > 0

check_complete(status) == status \in COMPLETE \cup FAILED

\* A lock that covers the FAILED group only.
check_locked_failed_only(status) ==
    status \in FAILED /\ ~settings.LOANORDER_EDIT_COMPLETED_ORDERS

check_locked(status) ==
    check_complete(status) /\ ~settings.LOANORDER_EDIT_COMPLETED_ORDERS

is_open(o) == o.status \in OPEN
can_approve(o) == o.status = "PENDING"
can_issue(o) == o.status \in {"PENDING", "APPROVED", "ON_HOLD"}
can_cancel(o) == o.status \in {"PENDING", "ON_HOLD"}
can_hold(o) == o.status \in {"PENDING", "ISSUED", "SHIPPED"}
can_return(d) ==
    d.order.status \in {"ISSUED", "SHIPPED", "PARTIAL_RETURN"} /\ HasShippedQuantity(d)
can_convert_to_sale(d) ==
    d.order.status \in {"ISSUED", "SHIPPED", "PARTIAL_RETURN"} /\ HasShippedQuantity(d)
can_write_off(d) ==
    d.order.status \in {"ISSUED", "SHIPPED", "PARTIAL_RETURN"} /\ HasShippedQuantity(d)

\* The overdue test without its filter on the status group.
is_overdue_any_status == due_date # None /\ due_date < today

\* LoanOrder.is_overdue: the stored order row passes overdue_filter().
is_overdue == order.status \in OPEN /\ due_date # None /\ due_date < today

\* A transition check that lets every target through.
_validate_transition_unchecked(o, target_status) == TRUE

_validate_transition(o, target_status) == target_status \in ALLOWED_TRANSITIONS[o.status]

\* LoanOrder.save() of the in-memory order o: refused when the stored order
\* is locked and the status is not being changed.
OrderSave(s, o) ==
    IF check_locked(s.db.order.status) /\ s.db.order.status = o.status
    THEN Raise(s)
    ELSE [s EXCEPT !.db.order = o,
                   !.path = IF o.status # s.db.order.status THEN Append(@, o.status) ELSE @]

\* LoanOrderLineItem.save() of the in-memory line `row`, whose order was
\* loaded with status order_status; the trailing order.save() rewrites the
\* order row with the values it was loaded with (total price aside).
LineSave(s, l, row, order_status) ==
    IF check_locked(order_status) THEN Raise(s)
    ELSE [s EXCEPT !.db.lines[l] = row]

\* LoanOrderLineItem.delete() of line l, whose order was loaded with status
\* order_status.
LineDelete(s, l, order_status) ==
    IF check_locked(order_status) THEN Raise(s)
    ELSE [s EXCEPT !.db.lines[l] = NoLine(l)]

\* LoanOrderExtraLine.save() and .delete(); the extra lines' own rows are
\* not among the rows kept here.
ExtraLineSave(s, order_status) == IF check_locked(order_status) THEN Raise(s) ELSE s

ExtraLineDelete(s, order_status) == IF check_locked(order_status) THEN Raise(s) ELSE s

\* ----------------------------------------------------- order state machine
_action_approve(s) ==
    IF can_approve(s.db.order)
    THEN OrderSave(s, [s.db.order EXCEPT !.status = "APPROVED"])
    ELSE s

\* The issue action stamping issue_date anew each time.
_action_issue_restamps(s) ==
    IF can_issue(s.db.order)
    THEN LET has_shipped == \E l \in OwnLines(s.db) : s.db.lines[l].status = "SHIPPED"
         IN OrderSave(s, [s.db.order EXCEPT
                !.status = IF has_shipped THEN "SHIPPED" ELSE "ISSUED",
                !.issue_date = today])
    ELSE s

_action_issue(s) ==
    IF can_issue(s.db.order)
    THEN LET has_shipped == \E l \in OwnLines(s.db) : s.db.lines[l].status = "SHIPPED"
         IN OrderSave(s, [s.db.order EXCEPT
                !.status = IF has_shipped THEN "SHIPPED" ELSE "ISSUED",
                !.issue_date = IF @ # None THEN @ ELSE today])
    ELSE s

_action_hold(s) ==
    IF can_hold(s.db.order)
    THEN OrderSave(s, [s.db.order EXCEPT !.status = "ON_HOLD"])
    ELSE s

_action_cancel(s) ==
    IF can_cancel(s.db.order)
    THEN OrderSave(s, [s.db.order EXCEPT !.status = "CANCELLED"])
    ELSE s

\* The allocation loop of _action_return for one allocation row.
ReturnAllocation(a) ==
    IF a.exists /\ a.quantity > 0 /\ a.quantity - a.returned > 0
    THEN [a EXCEPT !.returned = @ + (a.quantity - a.returned), !.quantity = 0]
    ELSE a

\* The loop body without its test of the shipped quantity.
ReturnLineAnyShipped(d, l) ==
    [d EXCEPT
        !.lines[l] = [@ EXCEPT !.returned = IF @ < d.lines[l].shipped
                                             THEN d.lines[l].shipped ELSE @,
                               !.status = "RETURNED"],
        !.allocations = [k \in DOMAIN @ |->
                            IF k[1] = l THEN ReturnAllocation(@[k]) ELSE @[k]]]

\* The body of _action_return's loop for line l.
ReturnLine(d, l) ==
    IF d.lines[l].shipped > 0
    THEN [d EXCEPT
            !.lines[l] = [@ EXCEPT !.returned = IF @ < d.lines[l].shipped
                                                 THEN d.lines[l].shipped ELSE @,
                                   !.status = "RETURNED"],
            !.allocations = [k \in DOMAIN @ |->
                                IF k[1] = l THEN ReturnAllocation(@[k]) ELSE @[k]]]
    ELSE d

RECURSIVE ReturnLines(_, _)
ReturnLines(d, S) ==
    IF S = {} THEN d
    ELSE LET l == CHOOSE x \in S : TRUE IN ReturnLines(ReturnLine(d, l), S \ {l})

_action_return(s) ==
    IF can_return(s.db)
    THEN LET d == ReturnLines(s.db, pending_line_items(s.db))
         IN OrderSave([s EXCEPT !.db = d],
                      [d.order EXCEPT !.status = "RETURNED", !.return_date = today])
    ELSE s

\* A conversion of the order that also closes its lines.
_action_convert_closes_lines(s) ==
    IF can_convert_to_sale(s.db)
    THEN OrderSave([s EXCEPT !.db.lines =
                       [l \in AllLines |->
                           IF l \in OwnLines(s.db) /\ @[l].shipped > 0
                           THEN [@[l] EXCEPT !.status = "CONVERTED_TO_SALE"] ELSE @[l]]],
                   [s.db.order EXCEPT !.status = "CONVERTED_TO_SALE"])
    ELSE s

_action_convert(s) ==
    IF can_convert_to_sale(s.db)
    THEN OrderSave(s, [s.db.order EXCEPT !.status = "CONVERTED_TO_SALE"])
    ELSE s

_action_write_off(s) ==
    IF can_write_off(s.db)
    THEN OrderSave(s, [s.db.order EXCEPT !.status = "WRITTEN_OFF"])
    ELSE s

approve_order(s) ==
    atomic(s,
        IF ~s.ok THEN s
        ELSE IF line_count(s.db) = 0 THEN Raise(s)
        ELSE IF ~_validate_transition(s.db.order, "APPROVED") THEN Raise(s)
        ELSE _action_approve(s))

issue_order(s) ==
    atomic(s,
        IF ~s.ok THEN s
        ELSE IF line_count(s.db) = 0 THEN Raise(s)
        ELSE IF ~_validate_transition(s.db.order, "ISSUED") THEN Raise(s)
        ELSE _action_issue(s))

hold_order(s) ==
    atomic(s,
        IF ~s.ok THEN s
        ELSE IF ~_validate_transition(s.db.order, "ON_HOLD") THEN Raise(s)
        ELSE _action_hold(s))

cancel_order(s) ==
    atomic(s,
        IF ~s.ok THEN s
        ELSE IF ~_validate_transition(s.db.order, "CANCELLED") THEN Raise(s)
        ELSE _action_cancel(s))

return_order(s) ==
    atomic(s,
        IF ~s.ok THEN s
        ELSE IF line_count(s.db) = 0 THEN Raise(s)
        ELSE IF ~_validate_transition(s.db.order, "RETURNED") THEN Raise(s)
        ELSE _action_return(s))

convert_to_sale(s) ==
    atomic(s,
        IF ~s.ok THEN s
        ELSE IF ~_validate_transition(s.db.order, "CONVERTED_TO_SALE") THEN Raise(s)
        ELSE _action_convert(s))

\* A write-off that tests neither the transition table nor can_write_off.
write_off_order_unguarded(s) ==
    atomic(s, IF ~s.ok THEN s
              ELSE OrderSave(s, [s.db.order EXCEPT !.status = "WRITTEN_OFF"]))

write_off_order(s) ==
    atomic(s,
        IF ~s.ok THEN s
        ELSE IF ~_validate_transition(s.db.order, "WRITTEN_OFF") THEN Raise(s)
        ELSE _action_write_off(s))

\* -------------------------------------------------------- stock collaborator
loan_allocation_count(d, u) ==
    SumOver([l \in AllLines |-> d.allocations[<<l, u>>].quantity], AllLines)

sales_order_allocation_count(d, u) ==
    SumOver([i \in DOMAIN d.sales_allocations |->
                IF d.sales_allocations[i].item = u
                THEN d.sales_allocations[i].quantity ELSE 0],
            DOMAIN d.sales_allocations)

\* StockItem.unallocated_quantity(): what is left of the stock item after
\* its sales and loan allocations (no build allocations are modelled).
unallocated_quantity(d, u) ==
    Max(StockQuantity[u] - (sales_order_allocation_count(d, u) + loan_allocation_count(d, u)), 0)

\* ------------------------------------------------------------------ shipping
\* The writes of one pass of the loop of ship_line_items, its tests passed:
\* the allocation is fetched or created and raised, the line instance `copy`
\* is raised and saved.
ShipWriteItem(s, item, copy) ==
    LET d == s.db
        quantity == item.quantity
        k == <<item.line_item, item.stock_item>>
        allocation ==
            IF d.allocations[k].exists
            THEN [d.allocations[k] EXCEPT !.quantity = @ + quantity]
            ELSE [NoAllocation EXCEPT !.exists = TRUE, !.quantity = quantity]
        shipped == copy.shipped + quantity
        line == [copy EXCEPT !.shipped = shipped,
                             !.status = IF shipped >= copy.quantity THEN "SHIPPED" ELSE @]
    IN  LineSave([s EXCEPT !.db.allocations[k] = allocation],
                 item.line_item, line, d.order.status)

\* One pass of the loop of ship_line_items.  copy is the LoanOrderLineItem
\* instance the item carries: the caller loaded it before the call, and the
\* loop reads and saves that instance, not the stored row.
ShipItem(s, item, copy) ==
    LET d == s.db
        quantity == item.quantity
    IN  IF ~s.ok THEN s
        ELSE IF copy.order # "O1" THEN Raise(s)
        ELSE IF quantity <= 0 THEN Raise(s)
        ELSE IF quantity > copy.quantity - copy.shipped THEN Raise(s)
        ELSE IF quantity > unallocated_quantity(d, item.stock_item) THEN Raise(s)
        ELSE ShipWriteItem(s, item, copy)

RECURSIVE ShipLoop(_, _, _)
ShipLoop(s, items, copies) ==
    IF items = <<>> THEN s
    ELSE ShipLoop(ShipItem(s, Head(items), copies[Head(items).line_item]),
                  Tail(items), copies)

\* The transition stamping ship_date anew each time.
ShipAutoTransitionRestamps(s) ==
    IF ~s.ok THEN s
    ELSE IF /\ s.db.order.status = "ISSUED"
            /\ \E l \in OwnLines(s.db) : s.db.lines[l].status = "SHIPPED"
    THEN OrderSave(s, [s.db.order EXCEPT !.status = "SHIPPED", !.ship_date = today])
    ELSE s

\* The automatic ISSUED -> SHIPPED transition that ends ship_line_items.
ShipAutoTransition(s) ==
    IF ~s.ok THEN s
    ELSE IF /\ s.db.order.status = "ISSUED"
            /\ \E l \in OwnLines(s.db) : s.db.lines[l].status = "SHIPPED"
    THEN OrderSave(s, [s.db.order EXCEPT !.status = "SHIPPED",
                                         !.ship_date = IF @ # None THEN @ ELSE today])
    ELSE s

\* The body without its test of the order status: no auto-issue, no refusal.
ShipLineItemsBodyAnyStatus(s, items, copies) ==
    ShipAutoTransition(ShipLoop(s, items, copies))

\* The body of LoanOrder.ship_line_items(items); the items' line instances
\* were loaded from the rows `copies` (by validate_items, or by
\* ship_all_line_items).
ShipLineItemsBody(s, items, copies) ==
    LET status == s.db.order.status
        s1 == IF ~s.ok THEN s
              ELSE IF status \in {"ISSUED", "SHIPPED", "PARTIAL_RETURN"} THEN s
              ELSE IF status \in {"PENDING", "APPROVED"} THEN issue_order(s)
              ELSE Raise(s)
    IN  ShipAutoTransition(ShipLoop(s1, items, copies))

\* LoanOrder.ship_line_items under its @transaction.atomic.
ship_line_items(s, items, copies) == atomic(s, ShipLineItemsBody(s, items, copies))

\* Stock items of the lines' part with quantity > 0, by descending quantity.
StockByQuantity == <<"U1">>

\* The first stock item of StockByQuantity[i..] that covers `remaining`.
RECURSIVE FirstSuitable(_, _, _)
FirstSuitable(d, remaining, i) ==
    IF i > Len(StockByQuantity) THEN "none"
    ELSE IF unallocated_quantity(d, StockByQuantity[i]) >= remaining
         THEN StockByQuantity[i]
         ELSE FirstSuitable(d, remaining, i + 1)

LinesByKey == <<"L1", "L2">>

\* items_to_ship with one unit asked for each line, whatever remains on it.
RECURSIVE ItemsToShipOneEach(_, _)
ItemsToShipOneEach(d, i) ==
    IF i > Len(LinesByKey) THEN <<>>
    ELSE LET l == LinesByKey[i]
             line == d.lines[l]
         IN  IF line.exists /\ line.shipped < line.quantity
             THEN <<[line_item |-> l,
                     stock_item |-> FirstSuitable(d, line.quantity - line.shipped, 1),
                     quantity |-> 1]>>
                  \o ItemsToShipOneEach(d, i + 1)
             ELSE ItemsToShipOneEach(d, i + 1)

\* items_to_ship of ship_all_line_items for the lines LinesByKey[i..];
\* an item with stock_item "none" stands for the raised 'No suitable stock'.
RECURSIVE ItemsToShip(_, _)
ItemsToShip(d, i) ==
    IF i > Len(LinesByKey) THEN <<>>
    ELSE LET l == LinesByKey[i]
             line == d.lines[l]
         IN  IF line.exists /\ line.shipped < line.quantity
             THEN <<[line_item |-> l,
                     stock_item |-> FirstSuitable(d, line.quantity - line.shipped, 1),
                     quantity |-> line.quantity - line.shipped]>>
                  \o ItemsToShip(d, i + 1)
             ELSE ItemsToShip(d, i + 1)

ship_all_line_items(s) ==
    LET items == ItemsToShip(s.db, 1)
    IN  atomic(s,
            IF ~s.ok THEN s
            ELSE IF items = <<>> THEN Raise(s)
            ELSE IF \E i \in DOMAIN items : items[i].stock_item = "none" THEN Raise(s)
            ELSE ship_line_items(s, items, s.db.lines))

\* ----------------------------------------------------------------- returning
\* One pass of the loop of return_line_items.  copy is the
\* LoanOrderAllocation instance the item carries (loaded by the caller);
\* its line is loaded from the stored row when the loop first reads it.
ReturnItem(s, item, copy) ==
    LET d == s.db
        quantity == item.quantity
        l == item.allocation[1]
        line == d.lines[l]
        returned == line.returned + quantity
    IN  IF ~s.ok THEN s
        ELSE IF line.order # "O1" THEN Raise(s)
        ELSE IF quantity <= 0 THEN Raise(s)
        ELSE IF quantity > copy.quantity THEN Raise(s)
        ELSE LineSave(
                [s EXCEPT !.db.allocations[item.allocation] =
                             [copy EXCEPT !.quantity = @ - quantity,
                                          !.returned = @ + quantity]],
                l,
                [line EXCEPT !.returned = returned,
                             !.status = IF returned >= line.quantity THEN "RETURNED" ELSE @],
                d.order.status)

RECURSIVE ReturnLoop(_, _, _)
ReturnLoop(s, items, copies) ==
    IF items = <<>> THEN s
    ELSE ReturnLoop(ReturnItem(s, Head(items), copies[Head(items).allocation]),
                    Tail(items), copies)

\* The derivation without its test of the order status before PARTIAL_RETURN.
ReturnAutoTransitionAnyStatus(s) ==
    LET d == s.db
        pending_line_count == Cardinality(pending_line_items(d))
        completed_line_count == Cardinality(completed_line_items(d))
    IN  IF ~s.ok THEN s
        ELSE IF pending_line_count = 0 /\ is_open(d.order)
        THEN IF settings.LOANORDER_AUTO_COMPLETE THEN return_order(s) ELSE s
        ELSE IF completed_line_count > 0 /\ pending_line_count > 0
        THEN OrderSave(s, [d.order EXCEPT !.status = "PARTIAL_RETURN"])
        ELSE s

\* The derivation without its reading of LOANORDER_AUTO_COMPLETE.
ReturnAutoTransitionIgnoresSetting(s) ==
    LET d == s.db
        pending_line_count == Cardinality(pending_line_items(d))
        completed_line_count == Cardinality(completed_line_items(d))
    IN  IF ~s.ok THEN s
        ELSE IF pending_line_count = 0 /\ is_open(d.order)
        THEN return_order(s)
        ELSE IF completed_line_count > 0 /\ pending_line_count > 0
                /\ d.order.status \in {"ISSUED", "SHIPPED"}
        THEN OrderSave(s, [d.order EXCEPT !.status = "PARTIAL_RETURN"])
        ELSE s

\* The order-status derivation that ends return_line_items.
ReturnAutoTransition(s) ==
    LET d == s.db
        pending_line_count == Cardinality(pending_line_items(d))
        completed_line_count == Cardinality(completed_line_items(d))
    IN  IF ~s.ok THEN s
        ELSE IF pending_line_count = 0 /\ is_open(d.order)
        THEN IF settings.LOANORDER_AUTO_COMPLETE THEN return_order(s) ELSE s
        ELSE IF completed_line_count > 0 /\ pending_line_count > 0
                /\ d.order.status \in {"ISSUED", "SHIPPED"}
        THEN OrderSave(s, [d.order EXCEPT !.status = "PARTIAL_RETURN"])
        ELSE s

return_line_items(s, items, copies) ==
    atomic(s,
        IF ~s.ok THEN s
        ELSE IF ~is_open(s.db.order) THEN Raise(s)
        ELSE ReturnAutoTransition(ReturnLoop(s, items, copies)))

\* ------------------------------------------------ conversion and sale of lines
remaining_on_loan(line) == line.shipped - line.returned - line.converted_quantity
available_to_convert(line) == remaining_on_loan(line)
available_returned_to_sell(line) == line.returned - line.returned_and_sold_quantity
\* Fully converted measured against the ordered quantity.
is_fully_converted_of_quantity(line) == line.converted_quantity >= line.quantity

is_fully_converted(line) == line.converted_quantity >= line.shipped
is_partially_converted(line) == 0 < line.converted_quantity /\ line.converted_quantity < line.shipped

\* can_convert_to_sale without its test of the order status.
line_can_convert_to_sale_any_status(line, quantity, o) ==
    IF remaining_on_loan(line) <= 0 THEN FALSE
    ELSE IF quantity <= 0 THEN FALSE
    ELSE IF quantity > remaining_on_loan(line) THEN FALSE
    ELSE TRUE

\* LoanOrderLineItem.can_convert_to_sale(quantity); o is the line's order.
line_can_convert_to_sale(line, quantity, o) ==
    IF remaining_on_loan(line) <= 0 THEN FALSE
    ELSE IF quantity <= 0 THEN FALSE
    ELSE IF quantity > remaining_on_loan(line) THEN FALSE
    ELSE IF o.status \notin {"ISSUED", "SHIPPED", "PARTIAL_RETURN"} THEN FALSE
    ELSE TRUE

can_sell_returned_items(line, quantity) ==
    IF available_returned_to_sell(line) <= 0 THEN FALSE
    ELSE IF quantity <= 0 THEN FALSE
    ELSE IF quantity > available_returned_to_sell(line) THEN FALSE
    ELSE TRUE

\* The stock items in the order the allocation query returns their rows.
UnitsByKey == <<"U1">>

\* The allocation transfer of _create_or_update_sales_order: the loan
\* allocations of line l on the stock items `units` are visited in turn
\* until `remaining` is covered.
RECURSIVE TransferAllocations(_, _, _, _, _)
TransferAllocations(d, l, sales_line, remaining, units) ==
    IF units = <<>> \/ remaining <= 0 THEN d
    ELSE LET k == <<l, Head(units)>>
             loan_alloc == d.allocations[k]
             available == loan_alloc.quantity - loan_alloc.returned
             alloc_quantity == Min(available, remaining)
         IN  IF loan_alloc.exists /\ loan_alloc.quantity > loan_alloc.returned
                /\ alloc_quantity > 0
             THEN TransferAllocations(
                    [d EXCEPT
                       !.sales_allocations =
                           Append(@, [line |-> sales_line, item |-> Head(units),
                                      quantity |-> alloc_quantity]),
                       !.allocations[k] =
                           [@ EXCEPT !.is_converted = TRUE,
                                     !.converted_to_sales_allocation =
                                         Len(d.sales_allocations) + 1]],
                    l, sales_line, remaining - alloc_quantity, Tail(units))
             ELSE TransferAllocations(d, l, sales_line, remaining, Tail(units))

\* _create_or_update_sales_order: the sales order is `existing_sales_order`
\* or a new one (linked back from the loan order, which is saved); one sales
\* line is created; on-loan stock has its allocations transferred.
_create_or_update_sales_order(s, l, quantity, existing_sales_order, is_returned_items) ==
    LET s1 == IF existing_sales_order # None THEN s
              ELSE OrderSave([s EXCEPT !.db.sales_orders = @ + 1],
                             [s.db.order EXCEPT
                                 !.converted_sales_order = s.db.sales_orders + 1])
        sales_order == IF existing_sales_order # None THEN existing_sales_order
                       ELSE s.db.sales_orders + 1
        sales_line == Len(s.db.sales_lines) + 1
        d2 == [s1.db EXCEPT !.sales_lines =
                   Append(@, [order |-> sales_order, quantity |-> quantity])]
    IN  IF ~s1.ok THEN s1
        ELSE IF is_returned_items THEN [s1 EXCEPT !.db = d2]
        ELSE [s1 EXCEPT !.db = TransferAllocations(d2, l, sales_line, quantity, UnitsByKey)]

\* LoanOrderLineConversion.clean(), run by full_clean() before the save.
ConversionClean(line, quantity, is_returned_items) ==
    IF is_returned_items
    THEN quantity <= line.returned - line.returned_and_sold_quantity
    ELSE quantity <= line.shipped - line.returned - line.converted_quantity

\* The converted quantity overwritten instead of added to.
AddConvertedOverwrite(line, quantity) == [line EXCEPT !.converted_quantity = quantity]

\* self.converted_quantity += quantity
AddConverted(line, quantity) == [line EXCEPT !.converted_quantity = @ + quantity]

\* LoanOrderLineItem.convert_to_sales_order(quantity) on the stored line l.
convert_to_sales_order(s, l, quantity, existing_sales_order) ==
    LET line == s.db.lines[l]
        o == s.db.order
        s1 == _create_or_update_sales_order(s, l, quantity, existing_sales_order, FALSE)
        s2 == [s1 EXCEPT !.db.conversions =
                  Append(@, [loan_line |-> l, sales_order_line |-> Len(s.db.sales_lines) + 1,
                             quantity |-> quantity, is_returned_items |-> FALSE])]
        line1 == AddConverted(s1.db.lines[l], quantity)
        s3 == LineSave(s2, l, line1, o.status)
        line2 == [line1 EXCEPT !.status =
                     IF is_fully_converted(line1) THEN "CONVERTED_TO_SALE"
                     ELSE IF is_partially_converted(line1) THEN "PARTIALLY_CONVERTED"
                     ELSE @]
    IN  atomic(s,
            IF ~s.ok THEN s
            ELSE IF ~line_can_convert_to_sale(line, quantity, o) THEN Raise(s)
            ELSE IF ~s1.ok THEN s1
            ELSE IF ~ConversionClean(line, quantity, FALSE) THEN Raise(s1)
            ELSE IF ~s3.ok THEN s3
            ELSE LineSave(s3, l, line2, o.status))

\* A sale of returned items that also counts the quantity as converted.
sell_returned_items_counts_converted(s, l, quantity, existing_sales_order) ==
    LET line == s.db.lines[l]
        o == s.db.order
        s1 == _create_or_update_sales_order(s, l, quantity, existing_sales_order, TRUE)
        s2 == [s1 EXCEPT !.db.conversions =
                  Append(@, [loan_line |-> l, sales_order_line |-> Len(s.db.sales_lines) + 1,
                             quantity |-> quantity, is_returned_items |-> TRUE])]
        line1 == [s1.db.lines[l] EXCEPT !.returned_and_sold_quantity = @ + quantity,
                                        !.converted_quantity = @ + quantity]
    IN  atomic(s,
            IF ~s.ok THEN s
            ELSE IF ~can_sell_returned_items(line, quantity) THEN Raise(s)
            ELSE IF ~s1.ok THEN s1
            ELSE IF ~ConversionClean(line, quantity, TRUE) THEN Raise(s1)
            ELSE LineSave(s2, l, line1, o.status))

\* LoanOrderLineItem.sell_returned_items(quantity) on the stored line l.
sell_returned_items(s, l, quantity, existing_sales_order) ==
    LET line == s.db.lines[l]
        o == s.db.order
        s1 == _create_or_update_sales_order(s, l, quantity, existing_sales_order, TRUE)
        s2 == [s1 EXCEPT !.db.conversions =
                  Append(@, [loan_line |-> l, sales_order_line |-> Len(s.db.sales_lines) + 1,
                             quantity |-> quantity, is_returned_items |-> TRUE])]
        line1 == [s1.db.lines[l] EXCEPT !.returned_and_sold_quantity = @ + quantity]
    IN  atomic(s,
            IF ~s.ok THEN s
            ELSE IF ~can_sell_returned_items(line, quantity) THEN Raise(s)
            ELSE IF ~s1.ok THEN s1
            ELSE IF ~ConversionClean(line, quantity, TRUE) THEN Raise(s1)
            ELSE LineSave(s2, l, line1, o.status))

\* ------------------------------------------------------------- serializers
\* LoanOrderShipItemsSerializer.validate_items
ShipValidateItems(d, items) ==
    /\ Len(items) > 0
    /\ \A i \in DOMAIN items : d.lines[items[i].line_item].exists /\ items[i].quantity > 0

\* LoanOrderReturnItemsSerializer.validate_items
ReturnValidateItems(d, items) ==
    /\ Len(items) > 0
    /\ \A i \in DOMAIN items : d.allocations[items[i].allocation].exists /\ items[i].quantity > 0

\* A validation that looks at the first item only.
ConvertValidateItemsFirstOnly(d, items) ==
    /\ Len(items) > 0
    /\ LET line == d.lines[items[1].line_item]
       IN  /\ line.exists /\ line.order = "O1"
           /\ items[1].quantity > 0
           /\ items[1].quantity <= available_to_convert(line)

\* LoanOrderConvertItemsSerializer.validate_items
ConvertValidateItems(d, items) ==
    /\ Len(items) > 0
    /\ \A i \in DOMAIN items :
          LET line == d.lines[items[i].line_item]
          IN  /\ line.exists /\ line.order = "O1"
              /\ items[i].quantity > 0
              /\ items[i].quantity <= available_to_convert(line)

\* LoanOrderSellReturnedItemsSerializer.validate_items
SellValidateItems(d, items) ==
    /\ Len(items) > 0
    /\ \A i \in DOMAIN items :
          LET line == d.lines[items[i].line_item]
          IN  /\ line.exists /\ line.order = "O1"
              /\ items[i].quantity > 0
              /\ items[i].quantity <= available_returned_to_sell(line)

\* LoanOrderConvertItemsSerializer.save: the items are converted one after
\* the other, each in the transaction of convert_to_sales_order; the first
\* exception ends the loop.
RECURSIVE ConvertItemsSave(_, _, _)
ConvertItemsSave(s, items, existing_sales_order) ==
    IF items = <<>> \/ ~s.ok THEN s
    ELSE ConvertItemsSave(
            convert_to_sales_order(s, Head(items).line_item, Head(items).quantity,
                                   existing_sales_order),
            Tail(items), existing_sales_order)

\* LoanOrderSellReturnedItemsSerializer.save
RECURSIVE SellItemsSave(_, _, _)
SellItemsSave(s, items, existing_sales_order) ==
    IF items = <<>> \/ ~s.ok THEN s
    ELSE SellItemsSave(
            sell_returned_items(s, Head(items).line_item, Head(items).quantity,
                                existing_sales_order),
            Tail(items), existing_sales_order)


\* ------------------------------------------------------------------ requests
\* Each request is an operator from the stored rows to the transaction it
\* ends with; the action commits the rows that transaction leaves behind.
WriteRows(s) ==
    /\ order' = s.db.order
    /\ lines' = s.db.lines
    /\ allocations' = s.db.allocations
    /\ conversions' = s.db.conversions
    /\ sales_orders' = s.db.sales_orders
    /\ sales_lines' = s.db.sales_lines
    /\ sales_allocations' = s.db.sales_allocations
    /\ UNCHANGED <<settings, today, due_date>>

Commit(s) == UNCHANGED inflight /\ WriteRows(s)

Quantities == 1 .. MaxQty

ShipItemChoices == [line_item : AllLines, stock_item : Units, quantity : Quantities]
ReturnItemChoices == [allocation : AllLines \X Units, quantity : Quantities]
LineItemChoices == [line_item : AllLines, quantity : Quantities]

\* Item lists of at most MaxBatch items.
Batches(S) == UNION {[1 .. n -> S] : n \in 0 .. MaxBatch}

ShipBatches == Batches(ShipItemChoices)
ReturnBatches == Batches(ReturnItemChoices)

\* The batches the conversion endpoints are sent while records may be added.
ConversionBatches ==
    {items \in Batches(LineItemChoices) : Len(conversions) + Len(items) <= MaxConversions}

\* POST line/ : line item l is added to the order.
AddLineRequest(l) ==
    IF check_complete(order.status) THEN Raise(Begin(DB))
    ELSE LineSave(Begin(DB), l, NewLine(l), order.status)

\* POST <pk>/approve/, issue/, hold/, cancel/, return/, convert/, write-off/
ApproveRequest == approve_order(Begin(DB))
IssueRequest == issue_order(Begin(DB))
HoldRequest == hold_order(Begin(DB))
CancelRequest == cancel_order(Begin(DB))
ReturnRequest == return_order(Begin(DB))
ConvertRequest == convert_to_sale(Begin(DB))
WriteOffRequest == write_off_order(Begin(DB))

\* POST <pk>/ship/
ShipItemsRequest(items) ==
    IF ~ShipValidateItems(DB, items) THEN Raise(Begin(DB))
    ELSE atomic(Begin(DB), ship_line_items(Begin(DB), items, lines))

\* POST <pk>/ship-all/
ShipAllRequest == atomic(Begin(DB), ship_all_line_items(Begin(DB)))

\* POST <pk>/return-items/
ReturnItemsRequest(items) ==
    IF ~ReturnValidateItems(DB, items) THEN Raise(Begin(DB))
    ELSE atomic(Begin(DB), return_line_items(Begin(DB), items, allocations))

\* POST <pk>/convert-items/
ConvertItemsRequest(items, existing_sales_order) ==
    IF ~ConvertValidateItems(DB, items) THEN Raise(Begin(DB))
    ELSE ConvertItemsSave(Begin(DB), items, existing_sales_order)

\* POST <pk>/sell-returned-items/
SellReturnedItemsRequest(items, existing_sales_order) ==
    IF ~SellValidateItems(DB, items) THEN Raise(Begin(DB))
    ELSE SellItemsSave(Begin(DB), items, existing_sales_order)

AddLine == \E l \in Lines : ~lines[l].exists /\ Commit(AddLineRequest(l))
Approve == Commit(ApproveRequest)
Issue == Commit(IssueRequest)
Hold == Commit(HoldRequest)
Cancel == Commit(CancelRequest)
Return == Commit(ReturnRequest)
Convert == Commit(ConvertRequest)
WriteOff == Commit(WriteOffRequest)
ShipItems == \E items \in ShipBatches : Commit(ShipItemsRequest(items))
ShipAll == Commit(ShipAllRequest)
ReturnItems == \E items \in ReturnBatches : Commit(ReturnItemsRequest(items))
ConvertItems ==
    \E items \in ConversionBatches, existing \in 0 .. sales_orders :
        Commit(ConvertItemsRequest(items, existing))
SellReturnedItems ==
    \E items \in ConversionBatches, existing \in 0 .. sales_orders :
        Commit(SellReturnedItemsRequest(items, existing))

Next ==
    \/ AddLine
    \/ Approve
    \/ Issue
    \/ Hold
    \/ Cancel
    \/ Return
    \/ Convert
    \/ WriteOff
    \/ ShipItems
    \/ ShipAll
    \/ ReturnItems
    \/ ConvertItems
    \/ SellReturnedItems

Spec == Init /\ [][Next]_vars

SpecUnlocked == InitUnlocked /\ [][Next]_vars

\* Orders are closed automatically or by hand (LOANORDER_AUTO_COMPLETE is on
\* or off).
InitAutoComplete ==
    /\ InitRows
    /\ settings \in [LOANORDER_EDIT_COMPLETED_ORDERS : {FALSE},
                      LOANORDER_AUTO_COMPLETE : BOOLEAN]
    /\ due_date = None

\* The requests that write a line's status or the order's.
NextLineStatus ==
    \/ AddLine
    \/ Approve
    \/ Issue
    \/ Hold
    \/ Cancel
    \/ Return
    \/ Convert
    \/ WriteOff
    \/ ShipItems
    \/ ShipAll
    \/ ReturnItems
    \/ ConvertItems

SpecAutoComplete == InitAutoComplete /\ [][NextLineStatus]_vars

\* A day passes between two requests.
Tick ==
    /\ today < MaxDay
    /\ today' = today + 1
    /\ UNCHANGED <<order, lines, allocations, conversions, sales_orders, sales_lines,
                   sales_allocations, settings, due_date, inflight>>

NextClock == Next \/ Tick

\* The requests with the date advancing between them.
SpecClock == Init /\ [][NextClock]_vars

\* The requests that write the order's status, and the clock.
NextDue ==
    \/ AddLine
    \/ Approve
    \/ Issue
    \/ Hold
    \/ Cancel
    \/ Return
    \/ Convert
    \/ WriteOff
    \/ ShipItems
    \/ ShipAll
    \/ ReturnItems
    \/ Tick

\* An order with or without a due date, over the days.
SpecDue == InitDue /\ [][NextDue]_vars

\* ------------------------------------------------- requests served side by side
\* No handler locks a row (no select_for_update) and the line instances are
\* loaded before the transaction begins, so a request is served in two
\* steps: it reads and tests, then it writes and commits, and the other
\* worker may do either in between.
\* What a worker remembers between its two steps: the item, the line
\* instance and the order instance it loaded, and the quantity it found
\* available.
Reading(kind, w, item, available) ==
    [inflight EXCEPT ![w] =
        [pc |-> kind, item |-> item, copy |-> lines[item.line_item], order |-> order,
         available |-> available, overlapped |-> FALSE]]

\* The worker has written: overlapped tells that the other worker was between
\* its two steps of the same kind of request at that moment.
Written(w, ok) ==
    [inflight EXCEPT ![w] =
        [@ EXCEPT !.pc = IF ok THEN @ \o "_committed" ELSE "raised",
                  !.overlapped = \E v \in Workers \ {w} : inflight[v].pc = inflight[w].pc]]

\* ship/ with one item, up to and including the test of the stock item's
\* unallocated quantity.
ShipCheck(w, item) ==
    /\ inflight[w].pc = "idle"
    /\ ShipValidateItems(DB, <<item>>)
    /\ order.status \in {"ISSUED", "SHIPPED", "PARTIAL_RETURN"}
    /\ ShipItem(Begin(DB), item, lines[item.line_item]).ok
    /\ inflight' = Reading("ship", w, item, unallocated_quantity(DB, item.stock_item))
    /\ UNCHANGED <<order, lines, allocations, conversions, sales_orders, sales_lines,
                   sales_allocations, settings, today, due_date>>

\* ship/ from the allocation's get_or_create to the commit: the line and the
\* order are saved from the instances loaded by ShipCheck.
ShipWrite(w) ==
    /\ inflight[w].pc = "ship"
    /\ LET t == inflight[w]
           s0 == [Begin(DB) EXCEPT !.db.order = t.order]
           r == atomic(Begin(DB), ShipAutoTransition(ShipWriteItem(s0, t.item, t.copy)))
       IN  WriteRows(r) /\ inflight' = Written(w, r.ok)

\* convert-items/ with one item, up to the line instance that save() loads.
ConvertCheck(w, item) ==
    /\ inflight[w].pc = "idle"
    /\ Len(conversions) + Cardinality({v \in Workers : inflight[v].pc = "convert"})
          < MaxConversions
    /\ ConvertValidateItems(DB, <<item>>)
    /\ inflight' = Reading("convert", w, item, available_to_convert(lines[item.line_item]))
    /\ UNCHANGED <<order, lines, allocations, conversions, sales_orders, sales_lines,
                   sales_allocations, settings, today, due_date>>

\* convert-items/ through convert_to_sales_order on the instance loaded by
\* ConvertCheck: its tests read that instance, and its save() writes it.
ConvertWrite(w) ==
    /\ inflight[w].pc = "convert"
    /\ LET t == inflight[w]
           s0 == [Begin(DB) EXCEPT !.db.lines[t.item.line_item] = t.copy]
           r == convert_to_sales_order(s0, t.item.line_item, t.item.quantity, None)
       IN  /\ WriteRows(IF r.ok THEN r ELSE Begin(DB))
           /\ inflight' = Written(w, r.ok)

\* The response is sent; the worker takes the next request.
Finish(w) ==
    /\ inflight[w].pc \in {"ship_committed", "convert_committed", "raised"}
    /\ inflight' = [inflight EXCEPT ![w] = Idle]
    /\ UNCHANGED <<order, lines, allocations, conversions, sales_orders, sales_lines,
                   sales_allocations, settings, today, due_date>>

NextConcurrent ==
    \/ AddLine
    \/ Issue
    \/ \E w \in Workers, item \in ShipItemChoices : ShipCheck(w, item)
    \/ \E w \in Workers : ShipWrite(w)
    \/ \E w \in Workers, item \in LineItemChoices : ConvertCheck(w, item)
    \/ \E w \in Workers : ConvertWrite(w)
    \/ \E w \in Workers : Finish(w)

\* Ship and conversion requests served by two workers at once.
SpecConcurrent == Init /\ [][NextConcurrent]_vars

\* ---------------------------------------------------------------- properties
ConvertibleStatuses == {"ISSUED", "SHIPPED", "PARTIAL_RETURN"}
TerminalStatuses == {"CONVERTED_TO_SALE", "CANCELLED", "WRITTEN_OFF"}

\* Every request the endpoints can be sent in the current state, as the
\* transaction it ends with.
Outcomes ==
    {ApproveRequest, IssueRequest, HoldRequest, CancelRequest, ReturnRequest,
     ConvertRequest, WriteOffRequest, ShipAllRequest}
    \cup {AddLineRequest(l) : l \in {x \in Lines : ~lines[x].exists}}
    \cup {ShipItemsRequest(items) : items \in ShipBatches}
    \cup {ReturnItemsRequest(items) : items \in ReturnBatches}
    \cup {ConvertItemsRequest(items, e) : items \in ConversionBatches, e \in 0 .. sales_orders}
    \cup {SellReturnedItemsRequest(items, e) : items \in ConversionBatches, e \in 0 .. sales_orders}

\* C1: the quantities of every line item stay ordered, whatever requests were
\* made: 0 <= shipped <= quantity, 0 <= returned <= shipped,
\* 0 <= converted_quantity <= shipped, 0 <= returned_and_sold_quantity <= returned.
LineQuantitiesOrdered ==
    \A l \in Lines :
        lines[l].exists =>
            /\ 0 <= lines[l].shipped /\ lines[l].shipped <= lines[l].quantity
            /\ 0 <= lines[l].returned /\ lines[l].returned <= lines[l].shipped
            /\ 0 <= lines[l].converted_quantity
            /\ lines[l].converted_quantity <= lines[l].shipped
            /\ 0 <= lines[l].returned_and_sold_quantity
            /\ lines[l].returned_and_sold_quantity <= lines[l].returned

\* C2: for every stock item the allocated quantities (loan and sales; no build
\* allocation exists here) add up to at most its physical quantity, also
\* after a conversion has created a sales allocation.
StockNotOverAllocated ==
    \A u \in Units :
        loan_allocation_count(DB, u) + sales_order_allocation_count(DB, u) <= StockQuantity[u]

RECURSIVE PathAllowed(_, _)
\* The statuses of path are saved one after the other, starting at from, and
\* each is a target the table allows from the one before.
PathAllowed(from, path) ==
    \/ path = <<>>
    \/ /\ Head(path) \in ALLOWED_TRANSITIONS[from]
       /\ PathAllowed(Head(path), Tail(path))

\* C3: whatever request is made, every status it saves on the order (by an
\* explicit action or by the automatic transitions of shipping and returning)
\* is a target ALLOWED_TRANSITIONS lists for the status before it, and the
\* order ends in the last status saved.
StatusChangesAllowed ==
    \A r \in Outcomes :
        /\ PathAllowed(order.status, r.path)
        /\ r.db.order.status =
              IF r.path = <<>> THEN order.status ELSE r.path[Len(r.path)]

\* A ship request on a pending order saves two statuses: ISSUED, then SHIPPED.
ShipSavesTwoStatuses ==
    /\ order.status = "PENDING"
    /\ \E items \in ShipBatches : ShipItemsRequest(items).path = <<"ISSUED", "SHIPPED">>

OrderActions == {"approve", "issue", "hold", "cancel", "return", "convert", "write_off"}

\* The status each order action asks for.
TargetOf(a) ==
    CASE a = "approve" -> "APPROVED"
      [] a = "issue" -> "ISSUED"
      [] a = "hold" -> "ON_HOLD"
      [] a = "cancel" -> "CANCELLED"
      [] a = "return" -> "RETURNED"
      [] a = "convert" -> "CONVERTED_TO_SALE"
      [] a = "write_off" -> "WRITTEN_OFF"

RequestOf(a) ==
    CASE a = "approve" -> ApproveRequest
      [] a = "issue" -> IssueRequest
      [] a = "hold" -> HoldRequest
      [] a = "cancel" -> CancelRequest
      [] a = "return" -> ReturnRequest
      [] a = "convert" -> ConvertRequest
      [] a = "write_off" -> WriteOffRequest

\* C4: an order action whose target the table does not allow from the
\* current status raises, and the order (status, dates), every line and every
\* allocation are as before.
DisallowedActionRejected ==
    \A a \in OrderActions :
        TargetOf(a) \notin ALLOWED_TRANSITIONS[order.status] =>
            LET r == RequestOf(a) IN ~r.ok /\ r.db = DB

\* issue is refused on a cancelled order that has lines, and so is every
\* other action.
IssueOnCancelledRefused ==
    /\ order.status = "CANCELLED"
    /\ line_count(DB) > 0
    /\ ~IssueRequest.ok
    /\ \A a \in OrderActions : TargetOf(a) \notin ALLOWED_TRANSITIONS[order.status]

\* C5: once the status is CONVERTED_TO_SALE, CANCELLED or WRITTEN_OFF, no
\* request changes it.
TerminalStatusKept ==
    [][order.status \in TerminalStatuses => order'.status = order.status]_vars

\* A written-off order on which a request still succeeds and writes rows.
WrittenOffOrderStillWritten ==
    /\ order.status = "WRITTEN_OFF"
    /\ \E r \in Outcomes : r.ok /\ r.db # DB

\* C6: an order one of whose lines has a shipped quantity is never CANCELLED,
\* by whatever path (hold after shipping included).
ShippedOrderNotCancelled == ~(order.status = "CANCELLED" /\ HasShippedQuantity(DB))

\* C7: a ship request (ship/ or ship-all/) that raises leaves every row as it
\* was: no allocation, no line update, no tracking of part of the batch, and
\* no automatic issue of the order.
ShipAllOrNothing ==
    /\ \A items \in ShipBatches :
          LET r == ShipItemsRequest(items) IN ~r.ok => r.db = DB
    /\ LET r == ShipAllRequest IN ~r.ok => r.db = DB

\* A pending order and a batch whose first item ships (the order having been
\* issued for it) and whose second item raises.
ShipBatchRaisesAfterWrites ==
    /\ order.status = "PENDING"
    /\ \E items \in ShipBatches :
          LET r == ShipLineItemsBody(Begin(DB), items, lines)
          IN  /\ ShipValidateItems(DB, items)
              /\ Len(items) = 2
              /\ ~r.ok
              /\ r.db.order.status = "ISSUED"
              /\ r.db.allocations # allocations
              /\ ~ShipItemsRequest(items).ok

\* C8: a convert-items request that raises (at validation or while an item
\* is being converted, the same line in several items included) leaves every
\* row as it was.
ConvertBatchAllOrNothing ==
    \A items \in ConversionBatches, e \in 0 .. sales_orders :
        LET r == ConvertItemsRequest(items, e) IN ~r.ok => r.db = DB

\* C9: convert_to_sales_order(quantity) on a line is accepted exactly when
\* quantity > 0, quantity <= shipped - returned - converted_quantity and the
\* order is ISSUED, SHIPPED or PARTIAL_RETURN; accepted, it adds its record;
\* otherwise it raises and every row is as before.
ConvertAcceptedIff ==
    \A l \in Lines, quantity \in 0 .. MaxQty + 1, e \in 0 .. sales_orders :
        lines[l].exists =>
            LET r == convert_to_sales_order(Begin(DB), l, quantity, e)
                line == lines[l]
                accepted ==
                    /\ quantity > 0
                    /\ quantity <= line.shipped - line.returned - line.converted_quantity
                    /\ order.status \in ConvertibleStatuses
            IN  /\ r.ok <=> accepted
                /\ r.ok => Len(r.db.conversions) = Len(conversions) + 1
                /\ ~r.ok => r.db = DB

\* A line has been converted before, and now takes one quantity but not the
\* next larger one.
ConvertQuantityLimitReached ==
    /\ conversions # <<>>
    /\ \E l \in Lines, quantity \in 1 .. MaxQty :
          /\ lines[l].exists
          /\ convert_to_sales_order(Begin(DB), l, quantity, None).ok
          /\ ~convert_to_sales_order(Begin(DB), l, quantity + 1, None).ok

\* The quantities of the conversion records of line l, of one kind.
ConversionTotal(l, is_returned_items) ==
    SumOver([i \in DOMAIN conversions |->
                IF /\ conversions[i].loan_line = l
                   /\ conversions[i].is_returned_items = is_returned_items
                THEN conversions[i].quantity ELSE 0],
            DOMAIN conversions)

ConversionTotalsMatch ==
    \A l \in Lines :
        /\ lines[l].converted_quantity = ConversionTotal(l, FALSE)
        /\ lines[l].returned_and_sold_quantity = ConversionTotal(l, TRUE)

RejectedAttemptAddsNoRecord ==
    \A l \in Lines, quantity \in 0 .. MaxQty + 1, e \in 0 .. sales_orders :
        lines[l].exists =>
            LET c == convert_to_sales_order(Begin(DB), l, quantity, e)
                r == sell_returned_items(Begin(DB), l, quantity, e)
            IN  /\ ~c.ok => c.db.conversions = conversions
                /\ ~r.ok => r.db.conversions = conversions

ConversionRecordsKept ==
    [][/\ Len(conversions') >= Len(conversions)
       /\ SubSeq(conversions', 1, Len(conversions)) = conversions]_vars

\* C10: for every line converted_quantity is the sum of its conversion
\* records with is_returned_items false and returned_and_sold_quantity the
\* sum of those with is_returned_items true; an attempt that is refused adds
\* no record; and a record, once created, is neither changed nor removed.
ConversionRecordsAccount ==
    /\ []ConversionTotalsMatch
    /\ []RejectedAttemptAddsNoRecord
    /\ ConversionRecordsKept

\* One line has a record of each kind.
LineHasBothKindsOfRecord ==
    /\ Len(conversions) = 2
    /\ conversions[1].loan_line = conversions[2].loan_line
    /\ conversions[1].is_returned_items # conversions[2].is_returned_items

\* C11: return_order on an ISSUED, SHIPPED or PARTIAL_RETURN order with a
\* shipped line ends with the order RETURNED and return_date set; every line
\* that was outside COMPLETE and PROBLEM with shipped > 0 has returned >=
\* shipped and status RETURNED; every other line is as it was.
ReturnOrderClosesShippedLines ==
    (order.status \in {"ISSUED", "SHIPPED", "PARTIAL_RETURN"} /\ HasShippedQuantity(DB)) =>
        LET r == ReturnRequest
        IN  /\ r.ok
            /\ r.db.order.status = "RETURNED"
            /\ r.db.order.return_date = today /\ r.db.order.return_date # None
            /\ \A l \in AllLines :
                  IF /\ l \in OwnLines(DB)
                     /\ lines[l].status \notin LINE_COMPLETE \cup LINE_PROBLEM
                     /\ lines[l].shipped > 0
                  THEN /\ r.db.lines[l].returned >= lines[l].shipped
                       /\ r.db.lines[l].status = "RETURNED"
                       /\ r.db.lines[l] = [lines[l] EXCEPT
                                              !.returned = Max(@, lines[l].shipped),
                                              !.status = "RETURNED"]
                  ELSE r.db.lines[l] = lines[l]

\* The order is partially returned: one line is short of its shipped
\* quantity, the other is complete or was never shipped.
ReturnOrderOnMixedLines ==
    /\ order.status = "PARTIAL_RETURN"
    /\ ReturnRequest.ok
    /\ \E l \in Lines : /\ lines[l].exists /\ lines[l].shipped > lines[l].returned
                         /\ lines[l].status \notin LINE_COMPLETE
    /\ \E l \in Lines : lines[l].exists /\ lines[l].status \in LINE_COMPLETE

\* C13: after an accepted ship request (ship/ or ship-all/) on an order that
\* is ISSUED, or PENDING or APPROVED and issued by the request, the order is
\* SHIPPED with ship_date set exactly when one of its lines has status
\* SHIPPED, and is ISSUED otherwise; a ship_date already set is kept, one
\* not yet set is today's; an order that was SHIPPED or PARTIAL_RETURN keeps
\* its status.
ShipSetsShippedStatus ==
    \A r \in {ShipItemsRequest(items) : items \in ShipBatches} \cup {ShipAllRequest} :
        r.ok =>
            LET after == r.db.order
                has_shipped_line == \E l \in OwnLines(r.db) : r.db.lines[l].status = "SHIPPED"
            IN  /\ order.status \in {"PENDING", "APPROVED", "ISSUED"} =>
                      /\ (after.status = "SHIPPED" /\ after.ship_date # None) <=> has_shipped_line
                      /\ ~has_shipped_line => after.status = "ISSUED"
                      /\ (has_shipped_line /\ order.ship_date = None) => after.ship_date = today
                /\ order.ship_date # None => after.ship_date = order.ship_date
                /\ order.status \in {"SHIPPED", "PARTIAL_RETURN"} => after.status = order.status
                /\ order.status \in {"PENDING", "APPROVED", "ISSUED", "SHIPPED", "PARTIAL_RETURN"}

\* An issued order that was shipped on an earlier day is shipped again.
ShippedAgainOnLaterDay ==
    /\ order.status = "ISSUED"
    /\ order.ship_date # None /\ order.ship_date < today
    /\ \E items \in ShipBatches :
          LET r == ShipItemsRequest(items) IN r.ok /\ r.db.order.status = "SHIPPED"

\* is_overdue reads the order row and the date and nothing else.
OverdueReadOnly ==
    [][(order' = order /\ due_date' = due_date /\ today' = today) =>
           (is_overdue' = is_overdue)]_vars

ReturnItemsSetsOrderStatus ==
    \A items \in ReturnBatches :
        LET r == ReturnItemsRequest(items)
            after == r.db.order
        IN  r.ok =>
                IF pending_line_items(r.db) = {}
                THEN IF settings.LOANORDER_AUTO_COMPLETE
                     THEN after.status = "RETURNED" /\ after.return_date = today
                          /\ after.return_date # None
                     ELSE after = order
                ELSE IF completed_line_items(r.db) # {} /\ order.status \in {"ISSUED", "SHIPPED"}
                     THEN after.status = "PARTIAL_RETURN"
                     ELSE after = order

\* With automatic completion off, the last outstanding items are returned
\* and the order stays as it is; another batch on the same order leaves a
\* line pending beside a complete one.
LastItemsReturnedOrderStaysOpen ==
    /\ ~settings.LOANORDER_AUTO_COMPLETE
    /\ \E items \in ReturnBatches :
          LET r == ReturnItemsRequest(items)
          IN  r.ok /\ pending_line_items(r.db) = {} /\ r.db.order.status = order.status
    /\ \E items \in ReturnBatches :
          LET r == ReturnItemsRequest(items)
          IN  r.ok /\ r.db.order.status = "PARTIAL_RETURN" /\ order.status # "PARTIAL_RETURN"

\* C15: sell_returned_items(quantity) on a line is accepted only if
\* quantity > 0 and quantity <= returned - returned_and_sold_quantity;
\* accepted, it adds quantity to returned_and_sold_quantity and appends one
\* conversion record with is_returned_items true and that quantity, leaving
\* every other field of the line (converted_quantity, shipped, returned,
\* status) and every loan allocation as they were; rejected, it leaves every
\* row as it was.
SellReturnedItemsEffect ==
    \A l \in Lines, quantity \in 0 .. MaxQty + 1, e \in 0 .. sales_orders :
        lines[l].exists =>
            LET r == sell_returned_items(Begin(DB), l, quantity, e)
                line == lines[l]
                n == Len(conversions)
            IN  /\ r.ok =>
                      /\ quantity > 0
                      /\ quantity <= line.returned - line.returned_and_sold_quantity
                      /\ r.db.lines =
                            [lines EXCEPT ![l].returned_and_sold_quantity = @ + quantity]
                      /\ Len(r.db.conversions) = n + 1
                      /\ SubSeq(r.db.conversions, 1, n) = conversions
                      /\ r.db.conversions[n + 1].loan_line = l
                      /\ r.db.conversions[n + 1].is_returned_items
                      /\ r.db.conversions[n + 1].quantity = quantity
                      /\ r.db.allocations = allocations
                /\ ~r.ok => r.db = DB

\* A line part of whose returned items is sold already: one more unit can be
\* sold, two cannot.
ReturnedItemsPartlySold ==
    \E l \in Lines :
        /\ lines[l].exists
        /\ lines[l].returned_and_sold_quantity > 0
        /\ sell_returned_items(Begin(DB), l, 1, None).ok
        /\ ~sell_returned_items(Begin(DB), l, 2, None).ok

\* C16: an order action that returns without raising has moved the order to
\* its target status (issue: to ISSUED or SHIPPED); so a call whose guard is
\* not met (hold outside PENDING, ISSUED, SHIPPED; cancel outside PENDING,
\* ON_HOLD; return, convert or write-off with no shipped line) raises.
OrderActionMovesOrRaises ==
    \A a \in OrderActions :
        LET r == RequestOf(a)
        IN  r.ok =>
                IF a = "issue" THEN r.db.order.status \in {"ISSUED", "SHIPPED"}
                ELSE r.db.order.status = TargetOf(a)

\* C17: convert_to_sale on a RETURNED order moves it to CONVERTED_TO_SALE.
ReturnedOrderConverts ==
    order.status = "RETURNED" =>
        (ConvertRequest.ok /\ ConvertRequest.db.order.status = "CONVERTED_TO_SALE")

\* C18: while the order is RETURNED, CONVERTED_TO_SALE, CANCELLED or
\* WRITTEN_OFF and LOANORDER_EDIT_COMPLETED_ORDERS is off, saving or deleting
\* one of its lines or extra lines raises, and so does saving the order with
\* its status unchanged; no ship, return-items, conversion or returned-item
\* sale request changes a line, an allocation or a conversion record.
LockedOrderRefusesWrites ==
    (check_complete(order.status) /\ ~settings.LOANORDER_EDIT_COMPLETED_ORDERS) =>
        /\ \A l \in Lines :
              /\ ~LineSave(Begin(DB), l, [NewLine(l) EXCEPT !.shipped = 1], order.status).ok
              /\ ~LineDelete(Begin(DB), l, order.status).ok
              /\ ~AddLineRequest(l).ok
        /\ ~ExtraLineSave(Begin(DB), order.status).ok
        /\ ~ExtraLineDelete(Begin(DB), order.status).ok
        /\ ~OrderSave(Begin(DB), [order EXCEPT !.return_date = today]).ok
        /\ \A r \in {ShipItemsRequest(items) : items \in ShipBatches}
                    \cup {ShipAllRequest}
                    \cup {ReturnItemsRequest(items) : items \in ReturnBatches}
                    \cup {ConvertItemsRequest(items, e) :
                            items \in Batches(LineItemChoices), e \in 0 .. sales_orders}
                    \cup {SellReturnedItemsRequest(items, e) :
                            items \in Batches(LineItemChoices), e \in 0 .. sales_orders} :
              /\ r.db.lines = lines
              /\ r.db.allocations = allocations
              /\ r.db.conversions = conversions
        /\ \A l \in Lines, quantity \in 1 .. MaxQty, e \in 0 .. sales_orders :
              lines[l].exists =>
                  /\ convert_to_sales_order(Begin(DB), l, quantity, e).db = DB
                  /\ sell_returned_items(Begin(DB), l, quantity, e).db = DB

\* A returned order with returned items not yet sold: their sale passes the
\* quantity test and is refused by the lock.
ReturnedOrderSaleRefused ==
    /\ order.status = "RETURNED"
    /\ ~settings.LOANORDER_EDIT_COMPLETED_ORDERS
    /\ \E l \in Lines :
          /\ lines[l].exists
          /\ can_sell_returned_items(lines[l], 1)
          /\ ~sell_returned_items(Begin(DB), l, 1, None).ok

\* C19: two ship requests on the same stock item, each having read its
\* unallocated quantity before the other wrote its allocation, do not both
\* commit when their quantities together exceed what either of them read.
ConcurrentShipsWithinStock ==
    \A w \in Workers, v \in Workers :
        ~ /\ w # v
          /\ inflight[w].pc = "ship_committed" /\ inflight[v].pc = "ship_committed"
          /\ inflight[w].overlapped
          /\ inflight[w].item.stock_item = inflight[v].item.stock_item
          /\ inflight[w].item.quantity + inflight[v].item.quantity
                > Max(inflight[w].available, inflight[v].available)

\* C20: when two conversions, or two shipments, of one line have both
\* committed, the line's total holds both quantities (no increment is lost)
\* and keeps its bound: converted_quantity <= shipped - returned,
\* shipped <= quantity.
ConcurrentLineTotalsKept ==
    \A w \in Workers, v \in Workers :
        (/\ w # v
         /\ inflight[w].pc \in {"ship_committed", "convert_committed"}
         /\ inflight[v].pc = inflight[w].pc
         /\ inflight[w].overlapped
         /\ inflight[w].item.line_item = inflight[v].item.line_item) =>
            LET line == lines[inflight[w].item.line_item]
                both == inflight[w].item.quantity + inflight[v].item.quantity
            IN  IF inflight[w].pc = "ship_committed"
                THEN line.shipped >= both /\ line.shipped <= line.quantity
                ELSE /\ line.converted_quantity >= both
                     /\ line.converted_quantity <= line.shipped - line.returned

\* C21: whenever the dates are present, creation_date <= issue_date <=
\* due_date, also after an issue action has stamped issue_date with the
\* current date.
OrderDatesOrdered ==
    /\ order.issue_date # None => order.creation_date <= order.issue_date
    /\ (order.issue_date # None /\ due_date # None) => order.issue_date <= due_date
    /\ due_date # None => order.creation_date <= due_date

\* C22: approve_order and issue_order on an order without line items raise
\* and leave the status as it was; approve_order on an order with a line
\* moves it from PENDING to APPROVED and raises from every other status.
ApproveNeedsLinesAndPending ==
    /\ line_count(DB) = 0 =>
          /\ ~ApproveRequest.ok /\ ApproveRequest.db.order.status = order.status
          /\ ~IssueRequest.ok /\ IssueRequest.db.order.status = order.status
    /\ line_count(DB) > 0 =>
          IF order.status = "PENDING"
          THEN ApproveRequest.ok /\ ApproveRequest.db.order.status = "APPROVED"
          ELSE ~ApproveRequest.ok /\ ApproveRequest.db.order.status = order.status

\* C23: issue_order from PENDING, APPROVED or ON_HOLD on an order with a
\* line sets the status to SHIPPED if a line has status SHIPPED and to ISSUED
\* otherwise, sets issue_date to today if it was unset and keeps an
\* issue_date that was set.
IssueSetsStatusAndDate ==
    (order.status \in {"PENDING", "APPROVED", "ON_HOLD"} /\ line_count(DB) > 0) =>
        LET r == IssueRequest
            has_shipped_line == \E l \in OwnLines(DB) : lines[l].status = "SHIPPED"
        IN  /\ r.ok
            /\ r.db.order.status = IF has_shipped_line THEN "SHIPPED" ELSE "ISSUED"
            /\ order.issue_date = None => r.db.order.issue_date = today
            /\ order.issue_date # None => r.db.order.issue_date = order.issue_date
            /\ r.db.order.issue_date # None

\* An order issued on an earlier day and put on hold with a shipped line is
\* issued again.
HeldOrderIssuedAgainLater ==
    /\ order.status = "ON_HOLD"
    /\ order.issue_date # None /\ order.issue_date < today
    /\ \E l \in OwnLines(DB) : lines[l].status = "SHIPPED"
    /\ IssueRequest.ok

\* C24: hold followed by issue restores the shipping progress: an order that
\* was SHIPPED when put on hold is SHIPPED after the issue, one that was
\* ISSUED is ISSUED, whatever was returned or converted on its lines before.
HoldThenIssueRestoresStatus ==
    order.status \in {"ISSUED", "SHIPPED"} =>
        LET held == HoldRequest
            resumed == issue_order(Begin(held.db))
        IN  /\ held.ok /\ held.db.order.status = "ON_HOLD"
            /\ resumed.ok /\ resumed.db.order.status = order.status

\* C25: after the order-level return action every allocation of each line
\* it closes has quantity 0, and its returned amount has grown by exactly
\* the quantity that was outstanding on it, also when part of the allocation
\* had been returned through return_line_items before.
ReturnOrderSettlesAllocations ==
    LET r == ReturnRequest
    IN  (r.ok /\ r.db.order.status = "RETURNED" /\ order.status # "RETURNED") =>
            \A l \in OwnLines(DB), u \in Units :
                (/\ lines[l].status \notin LINE_COMPLETE \cup LINE_PROBLEM
                 /\ lines[l].shipped > 0
                 /\ allocations[<<l, u>>].exists) =>
                    /\ r.db.allocations[<<l, u>>].quantity = 0
                    /\ r.db.allocations[<<l, u>>].returned =
                          allocations[<<l, u>>].returned + allocations[<<l, u>>].quantity

\* C26: order-level convert_to_sale and write_off_order change the order's
\* status and nothing else: every line (quantity, shipped, returned,
\* converted_quantity, returned_and_sold_quantity, status), every allocation
\* and every conversion record is as before.
OrderClosingLeavesLines ==
    \A r \in {ConvertRequest, WriteOffRequest} :
        /\ r.db = [DB EXCEPT !.order.status = r.db.order.status]
        /\ r.db.lines = lines
        /\ r.db.allocations = allocations
        /\ r.db.conversions = conversions

\* An order with items still out on one line and a conversion record on
\* it is converted to a sale, or written off.
OrderClosedWithItemsOut ==
    /\ conversions # <<>>
    /\ \E l \in OwnLines(DB) : remaining_on_loan(lines[l]) > 0 /\ lines[l].status \in LINE_OUT_ON_LOAN
    /\ ConvertRequest.ok /\ ConvertRequest.db.order.status = "CONVERTED_TO_SALE"
    /\ WriteOffRequest.ok /\ WriteOffRequest.db.order.status = "WRITTEN_OFF"

\* C27: each accepted ship item (line, stock item, q) raises the quantity of
\* the (line, stock item) allocation by q, creating it if needed, and raises
\* line.shipped by q; the line's status is SHIPPED exactly when shipped has
\* reached quantity, and a partially shipped line keeps its status.
ShipItemsRaiseTotals ==
    \A items \in ShipBatches :
        LET r == ShipItemsRequest(items)
            on_line(l) == SumOver([i \in DOMAIN items |->
                                     IF items[i].line_item = l THEN items[i].quantity ELSE 0],
                                  DOMAIN items)
            on_allocation(k) ==
                SumOver([i \in DOMAIN items |->
                            IF <<items[i].line_item, items[i].stock_item>> = k
                            THEN items[i].quantity ELSE 0],
                        DOMAIN items)
        IN  r.ok =>
              /\ \A k \in AllLines \X Units :
                    /\ r.db.allocations[k].quantity = allocations[k].quantity + on_allocation(k)
                    /\ r.db.allocations[k].exists <=> (allocations[k].exists \/ on_allocation(k) > 0)
              /\ \A l \in AllLines :
                    /\ r.db.lines[l].shipped = lines[l].shipped + on_line(l)
                    /\ on_line(l) > 0 =>
                          r.db.lines[l].status =
                              IF r.db.lines[l].shipped >= lines[l].quantity
                              THEN "SHIPPED" ELSE lines[l].status
                    /\ on_line(l) = 0 => r.db.lines[l] = lines[l]

\* C28: ship_line_items on an ON_HOLD, RETURNED, CONVERTED_TO_SALE,
\* CANCELLED or WRITTEN_OFF order raises and changes nothing; on a PENDING
\* or APPROVED order it first runs the issue action (and so raises for an
\* order without lines) and then ships from ISSUED.
ShipRefusedOrAutoIssued ==
    \A items \in ShipBatches :
        \A r \in {ShipItemsRequest(items), ship_line_items(Begin(DB), items, lines)} :
            /\ order.status \in {"ON_HOLD", "RETURNED", "CONVERTED_TO_SALE", "CANCELLED",
                                 "WRITTEN_OFF"} => (~r.ok /\ r.db = DB)
            /\ order.status \in {"PENDING", "APPROVED"} =>
                  /\ line_count(DB) = 0 => (~r.ok /\ r.db = DB)
                  /\ ~IssueRequest.ok => ~r.ok
                  /\ r.ok =>
                        /\ Head(r.path) = "ISSUED"
                        /\ r.db.order.issue_date = IssueRequest.db.order.issue_date
                        /\ r.db.order.status \in {"ISSUED", "SHIPPED"}
                        /\ r.db.order.status = "SHIPPED" => r.path = <<"ISSUED", "SHIPPED">>

\* An approved order is issued by a ship request that ships part of a line.
ApprovedOrderIssuedByShipment ==
    /\ order.status = "APPROVED"
    /\ \E items \in ShipBatches :
          /\ ShipItemsRequest(items).ok
          /\ ShipItemsRequest(items).path = <<"ISSUED">>
          /\ ShipItemsRequest(items).db.lines # lines

ShipAllAssignmentFeasible ==
    LET items == ItemsToShip(DB, 1)
        assigned(u) == SumOver([i \in DOMAIN items |->
                                  IF items[i].stock_item = u THEN items[i].quantity ELSE 0],
                               DOMAIN items)
    IN  (/\ items # <<>>
         /\ \A i \in DOMAIN items : items[i].stock_item # "none"
         /\ order.status \in {"PENDING", "APPROVED", "ISSUED", "SHIPPED", "PARTIAL_RETURN"}) =>
            /\ \A u \in Units : assigned(u) <= unallocated_quantity(DB, u)
            /\ ShipAllRequest.ok

\* C31: each accepted return item (allocation, q) has its allocation on the
\* order and 0 < q <= allocation.quantity; it lowers allocation.quantity by
\* q, raises allocation.returned by q and raises the line's returned by q;
\* the line's status is RETURNED exactly when returned has reached quantity.
ReturnItemsMoveTotals ==
    \A items \in ReturnBatches :
        LET r == ReturnItemsRequest(items)
            on_allocation(k) ==
                SumOver([i \in DOMAIN items |->
                            IF items[i].allocation = k THEN items[i].quantity ELSE 0],
                        DOMAIN items)
            on_line(l) ==
                SumOver([i \in DOMAIN items |->
                            IF items[i].allocation[1] = l THEN items[i].quantity ELSE 0],
                        DOMAIN items)
        IN  r.ok =>
              /\ \A i \in DOMAIN items :
                    /\ allocations[items[i].allocation].exists
                    /\ lines[items[i].allocation[1]].order = "O1"
                    /\ 0 < items[i].quantity
                    /\ items[i].quantity <= allocations[items[i].allocation].quantity
              /\ \A k \in AllLines \X Units :
                    /\ r.db.allocations[k].quantity = allocations[k].quantity - on_allocation(k)
                    /\ r.db.allocations[k].returned = allocations[k].returned + on_allocation(k)
              /\ \A l \in AllLines :
                    /\ r.db.lines[l].returned = lines[l].returned + on_line(l)
                    /\ on_line(l) > 0 =>
                          r.db.lines[l].status =
                              IF r.db.lines[l].returned >= lines[l].quantity
                              THEN "RETURNED" ELSE lines[l].status
                    /\ on_line(l) = 0 => r.db.lines[l] = lines[l]

\* C32: return_line_items is accepted in every OPEN status (PENDING,
\* APPROVED, ISSUED, SHIPPED, ON_HOLD, PARTIAL_RETURN) whenever each item is
\* valid by itself, the batch that returns the last quantity out of an
\* ON_HOLD order included; outside the OPEN group it raises and changes
\* nothing.
ReturnItemsAcceptedWhenOpen ==
    \A items \in ReturnBatches :
        LET r == ReturnItemsRequest(items)
            valid(item) ==
                /\ allocations[item.allocation].exists
                /\ lines[item.allocation[1]].order = "O1"
                /\ 0 < item.quantity
                /\ item.quantity <= allocations[item.allocation].quantity
        IN  /\ (/\ order.status \in OPEN
                /\ items # <<>>
                /\ \A i \in DOMAIN items : valid(items[i])) => r.ok
            /\ order.status \notin OPEN => (~r.ok /\ r.db = DB)

\* C33: after an accepted conversion of quantity q the line's
\* converted_quantity has grown by exactly q, and its status is
\* CONVERTED_TO_SALE when converted_quantity >= shipped and
\* PARTIALLY_CONVERTED when 0 < converted_quantity < shipped; shipped,
\* returned and returned_and_sold_quantity are as before.
ConversionRaisesConvertedQuantity ==
    /\ \A l \in Lines, quantity \in 0 .. MaxQty + 1, e \in 0 .. sales_orders :
          LET r == convert_to_sales_order(Begin(DB), l, quantity, e)
              after == r.db.lines[l]
          IN  (lines[l].exists /\ r.ok) =>
                /\ after.converted_quantity = lines[l].converted_quantity + quantity
                /\ after.converted_quantity >= after.shipped => after.status = "CONVERTED_TO_SALE"
                /\ (0 < after.converted_quantity /\ after.converted_quantity < after.shipped)
                      => after.status = "PARTIALLY_CONVERTED"
                /\ after = [lines[l] EXCEPT !.converted_quantity = after.converted_quantity,
                                            !.status = after.status]
                /\ \A m \in AllLines \ {l} : r.db.lines[m] = lines[m]
    /\ \A items \in ConversionBatches, e \in 0 .. sales_orders :
          LET r == ConvertItemsRequest(items, e)
              on_line(l) == SumOver([i \in DOMAIN items |->
                                       IF items[i].line_item = l THEN items[i].quantity ELSE 0],
                                    DOMAIN items)
          IN  r.ok =>
                \A l \in AllLines :
                    /\ r.db.lines[l].converted_quantity = lines[l].converted_quantity + on_line(l)
                    /\ r.db.lines[l] = [lines[l] EXCEPT
                                           !.converted_quantity = @ + on_line(l),
                                           !.status = r.db.lines[l].status]
                    /\ on_line(l) > 0 =>
                          r.db.lines[l].status =
                              IF r.db.lines[l].converted_quantity >= lines[l].shipped
                              THEN "CONVERTED_TO_SALE" ELSE "PARTIALLY_CONVERTED"
                    /\ on_line(l) = 0 => r.db.lines[l] = lines[l]

\* A partially converted line has one more unit converted and becomes
\* CONVERTED_TO_SALE.
PartlyConvertedLineConvertedFully ==
    \E l \in Lines :
        /\ lines[l].exists
        /\ lines[l].status = "PARTIALLY_CONVERTED"
        /\ LET r == convert_to_sales_order(Begin(DB), l, 1, None)
           IN  r.ok /\ r.db.lines[l].status = "CONVERTED_TO_SALE"

\* C34: after an accepted conversion of quantity q from on-loan stock the
\* sale allocations created for the new sale line add up to q, each is on a
\* stock item that one of the line's loan allocations holds with quantity
\* still on loan, and every loan allocation drawn on is flagged is_converted
\* and refers to a sale allocation created from it.
ConversionTransfersAllocations ==
    \A l \in Lines, quantity \in 1 .. MaxQty, e \in 0 .. sales_orders :
        LET r == convert_to_sales_order(Begin(DB), l, quantity, e)
            n == Len(sales_allocations)
            created == (n + 1) .. Len(r.db.sales_allocations)
            sale_line == Len(sales_lines) + 1
        IN  (lines[l].exists /\ r.ok) =>
              /\ SubSeq(r.db.sales_allocations, 1, n) = sales_allocations
              /\ SumOver([i \in created |-> r.db.sales_allocations[i].quantity], created)
                    = quantity
              /\ \A i \in created :
                    /\ r.db.sales_allocations[i].line = sale_line
                    /\ allocations[<<l, r.db.sales_allocations[i].item>>].exists
                    /\ allocations[<<l, r.db.sales_allocations[i].item>>].quantity > 0
                    /\ r.db.allocations[<<l, r.db.sales_allocations[i].item>>].is_converted
                    /\ r.db.allocations[<<l, r.db.sales_allocations[i].item>>]
                          .converted_to_sales_allocation = i
              /\ \A k \in AllLines \X Units :
                    (~\E i \in created : k = <<l, r.db.sales_allocations[i].item>>)
                        => r.db.allocations[k] = allocations[k]

\* C35: a batch conversion or batch sale of returned items is refused before
\* anything is written when its item list is empty, when an item has a
\* quantity <= 0, or when an item names a line that does not exist or
\* belongs to another order.
InvalidBatchRefusedUnchanged ==
    \A items \in Batches([line_item : AllLines, quantity : 0 .. MaxQty]),
       e \in 0 .. sales_orders :
        (\/ items = <<>>
         \/ \E i \in DOMAIN items :
               \/ items[i].quantity <= 0
               \/ ~lines[items[i].line_item].exists
               \/ lines[items[i].line_item].order # "O1") =>
            \A r \in {ConvertItemsRequest(items, e), SellReturnedItemsRequest(items, e)} :
                ~r.ok /\ r.db = DB

\* A conversion that is accepted by itself is refused, with nothing
\* written, in a batch whose second item names a line of another order or
\* has quantity 0.
ValidItemRefusedWithInvalidOne ==
    \E l \in Lines :
        /\ lines[l].exists
        /\ Len(conversions) < MaxConversions
        /\ ConvertItemsRequest(<<[line_item |-> l, quantity |-> 1]>>, None).ok
        /\ ~ConvertItemsRequest(<<[line_item |-> l, quantity |-> 1],
                                  [line_item |-> OtherLine, quantity |-> 1]>>, None).ok
        /\ ~ConvertItemsRequest(<<[line_item |-> l, quantity |-> 1],
                                  [line_item |-> l, quantity |-> 0]>>, None).ok

\* C36: an event is handed to trigger_event only for a change that is
\* committed: a ship batch whose auto-issue saved the order (and so triggered
\* ISSUED), and a return batch whose loop ended without an exception (and so
\* triggered LINE_ITEM_RETURNED), is not rolled back afterwards.
EventsOnlyForCommittedChanges ==
    /\ \A items \in ShipBatches :
          LET issued == issue_order(Begin(DB))
              issued_event == /\ ShipValidateItems(DB, items)
                              /\ order.status \in {"PENDING", "APPROVED"}
                              /\ issued.ok
                              /\ issued.path # <<>>
          IN  issued_event => ShipItemsRequest(items).ok
    /\ \A items \in ReturnBatches :
          LET line_returned_event ==
                  /\ ReturnValidateItems(DB, items)
                  /\ is_open(order)
                  /\ ReturnLoop(Begin(DB), items, allocations).ok
          IN  line_returned_event => ReturnItemsRequest(items).ok

\* C37: every change of a line's status follows the lifecycle PENDING ->
\* SHIPPED -> RETURNED, CONVERTED_TO_SALE or PARTIALLY_CONVERTED, with
\* PARTIALLY_CONVERTED -> CONVERTED_TO_SALE or RETURNED; a line never moves
\* back to SHIPPED or PENDING.
LineStatusFollowsLifecycle ==
    [][\A l \in DOMAIN lines :
          LET from == lines[l].status
              to == lines'[l].status
          IN  (lines[l].exists /\ from # to) =>
                 \/ from = "PENDING" /\ to = "SHIPPED"
                 \/ from = "SHIPPED"
                    /\ to \in {"RETURNED", "CONVERTED_TO_SALE", "PARTIALLY_CONVERTED"}
                 \/ from = "PARTIALLY_CONVERTED"
                    /\ to \in {"CONVERTED_TO_SALE", "RETURNED"}]_vars

\* C38: for every line of the order, returned + converted_quantity <= shipped
\* (remaining_on_loan >= 0): a quantity is never both returned and converted.
RemainingOnLoanNeverNegative ==
    \A l \in OwnLines(DB) : remaining_on_loan(lines[l]) >= 0

\* C39: for a line that no conversion or sale has touched, the outstanding
\* quantities of its allocations sum to shipped - returned, their returned
\* amounts sum to the line's returned, and no allocation holds a negative
\* quantity or returned amount.
AllocationsMatchLineTotals ==
    \A l \in OwnLines(DB) :
        LET line == lines[l]
            keys == {k \in DOMAIN allocations : k[1] = l /\ allocations[k].exists}
        IN  (line.converted_quantity = 0 /\ line.returned_and_sold_quantity = 0) =>
               /\ SumOver([k \in keys |-> allocations[k].quantity], keys)
                     = line.shipped - line.returned
               /\ SumOver([k \in keys |-> allocations[k].returned], keys) = line.returned
               /\ \A k \in keys : allocations[k].quantity >= 0 /\ allocations[k].returned >= 0

\* C40: when an accepted ship batch names one line in more than one item, the
\* quantities of those items together are at most the line's quantity - shipped
\* at the start of the batch, and the stored line.shipped grows by their sum,
\* as do the line's allocations.
RepeatedLineShippedOnce ==
    \A items \in ShipBatches :
        \A l \in AllLines :
            LET r == ShipItemsRequest(items)
                named == {i \in DOMAIN items : items[i].line_item = l}
                accepted == SumOver([i \in named |-> items[i].quantity], named)
                keys == {k \in DOMAIN allocations : k[1] = l}
                growth == SumOver([k \in keys |-> r.db.allocations[k].quantity
                                                    - allocations[k].quantity], keys)
            IN  (r.ok /\ Cardinality(named) > 1) =>
                   /\ accepted <= lines[l].quantity - lines[l].shipped
                   /\ r.db.lines[l].shipped = lines[l].shipped + accepted
                   /\ growth = accepted

====
